---- MODULE Spec2Model ----
(***************************************************************************)
(* Desktop pet (src/desktop_cat.py, class DesktopPetApp): the timer-driven *)
(* animation cycler, drag handling with edge clamping, the context menu,   *)
(* and the chat popup with its background request and session log.         *)
(***************************************************************************)
EXTENDS Integers, Sequences, FiniteSets, TLC

VARIABLES
    running,         \* the Tk root (self.master) exists; FALSE after quit_app
    pending,         \* the timer callback scheduled with master.after
    cycle,           \* self.cycle: frame index
    check,           \* self.check: animation mode 0..5
    event_number,    \* self.event_number
    is_dragging,     \* self.is_dragging
    drag_start_x,    \* self.drag_start_x
    drag_start_y,    \* self.drag_start_y
    x, y,            \* self.x, self.y
    work_w, work_h,  \* what _get_working_area returns
    pet_w, pet_h,    \* what _get_pet_size returns
    last,            \* history: the handler that ran last
    menu_used,       \* history: set_animation_event has run at least once
    menu_pending,    \* history: the event number a menu command set and event()
                     \* has not consumed yet, 0 when there is none
    gemini_chat,     \* self.gemini_chat: "ready", or "none" when setup failed
    chat_window,     \* self.chat_window: 0 when None or destroyed, else the
                     \*   number of the window
    chat_display,    \* content of the self.chat_display textbox
    entry_text,      \* content of the self.user_input_entry entry
    entry_state,     \* state of self.user_input_entry
    button_state,    \* state of self.send_button
    current_session_messages,  \* self.current_session_messages
    session_start_time,        \* self.session_start_time, 0 for None
    clock,           \* datetime.datetime.now(), in sessions started so far
    history_file,    \* rows of neko_chat_history.csv, <<>> while it does not exist
    threads,         \* background threads running _get_gemini_response
    after_queue,     \* callbacks queued with master.after(0, ...)
    sends,           \* history: number of messages accepted so far
    ended            \* history: the message list of each session when it ended

petVars == <<running, pending, cycle, check, event_number, is_dragging,
             drag_start_x, drag_start_y, x, y, work_w, work_h, pet_w, pet_h,
             last, menu_used, menu_pending>>

chatVars == <<gemini_chat, chat_window, chat_display, entry_text, entry_state,
              button_state, current_session_messages, session_start_time,
              clock, history_file, threads, after_queue, sends, ended>>

vars == <<petVars, chatVars>>

----------------------------------------------------------------------------
(* Bounds of the model *)

\* largest work-area slack work_w - pet_w explored
MaxSlackX == 4
\* largest work-area slack work_h - pet_h explored
MaxSlackY == 1
\* chat sessions opened in one run
MaxSessions == 2
\* messages accepted by send_chat_message in one run
MaxSends == 2

----------------------------------------------------------------------------
(* Program constants *)

IDLE == 0
IDLE_TO_SLEEP == 1
SLEEP == 2
SLEEP_TO_IDLE == 3
WALK_LEFT == 4
WALK_RIGHT == 5

Modes == {IDLE, IDLE_TO_SLEEP, SLEEP, SLEEP_TO_IDLE, WALK_LEFT, WALK_RIGHT}

idle_num == {1, 2, 3, 4}
sleep_num == {10, 11, 12, 13, 15}
walk_left_num == {6, 7}
walk_right_num == {8, 9}

\* a context menu whose sleep entry passes a number of sleep_num
MenuEvents_direct_sleep == {10, 6, 8}

\* the event numbers the context menu passes to set_animation_event
MenuEvents == {5, 6, 8}

\* number of frames loaded for each animation (len of the frame list of mode c)
Frames(c) ==
    CASE c = IDLE          -> 5
      [] c = IDLE_TO_SLEEP -> 8
      [] c = SLEEP         -> 3
      [] c = SLEEP_TO_IDLE -> 8
      [] c = WALK_LEFT     -> 8
      [] c = WALK_RIGHT    -> 8

\* FirstNum with the sleep range starting one too low
FirstNum_low(c) ==
    CASE c = IDLE          -> 1
      [] c = IDLE_TO_SLEEP -> 10
      [] c = SLEEP         -> 9
      [] c = SLEEP_TO_IDLE -> 1
      [] c = WALK_LEFT     -> 1
      [] c = WALK_RIGHT    -> 1

\* the (first_num, last_num) arguments update() passes to gif_work in mode c
FirstNum(c) ==
    CASE c = IDLE          -> 1
      [] c = IDLE_TO_SLEEP -> 10
      [] c = SLEEP         -> 10
      [] c = SLEEP_TO_IDLE -> 1
      [] c = WALK_LEFT     -> 1
      [] c = WALK_RIGHT    -> 1

\* LastNum with the idle range reaching into the sleep numbers
LastNum_wide(c) ==
    CASE c = IDLE          -> 10
      [] c = IDLE_TO_SLEEP -> 10
      [] c = SLEEP         -> 15
      [] c = SLEEP_TO_IDLE -> 1
      [] c = WALK_LEFT     -> 9
      [] c = WALK_RIGHT    -> 9

LastNum(c) ==
    CASE c = IDLE          -> 9
      [] c = IDLE_TO_SLEEP -> 10
      [] c = SLEEP         -> 15
      [] c = SLEEP_TO_IDLE -> 1
      [] c = WALK_LEFT     -> 9
      [] c = WALK_RIGHT    -> 9

\* pixels walked per tick
WalkStep == 3
\* fallback pet size of _get_pet_size, also the fixed window size
PetSize == 100
\* offsets of the initial position in __init__
InitOffsetX == 50
InitOffsetY == 100

----------------------------------------------------------------------------
(* Helpers *)

Max(a, b) == IF a >= b THEN a ELSE b
Min(a, b) == IF a <= b THEN a ELSE b

\* _clamp_position without the lower bound
clamp_no_lower(v, working, pet) == Min(v, Max(0, working - pet))

\* _clamp_position, one coordinate: max(0, min(v, max(0, working - pet)))
clamp(v, working, pet) == Max(0, Min(v, Max(0, working - pet)))

clamp_x(v) == clamp(v, work_w, pet_w)
clamp_y(v) == clamp(v, work_h, pet_h)

\* values the environment can give for the work area and the pet size
\* (width, height) pairs: one roomy work area, one smaller than the pet
WorkAreas == {<<PetSize + MaxSlackX, PetSize + MaxSlackY>>,
              <<PetSize - 2, PetSize - 1>>}

\* values winfo_x()/winfo_y() can return while dragging; the pointer offset
\* added to them takes the dragged-to position outside the work area
WinXs == 0 .. MaxSlackX
WinYs == 0 .. MaxSlackY
\* pointer coordinates inside the label (event.x, event.y) that are tried
PointerCoords == {0, 1}

----------------------------------------------------------------------------
(* Initial state: DesktopPetApp.__init__ *)

InitPet ==
    /\ running = TRUE
    /\ pending = "update"
    /\ cycle = 0
    /\ check = IDLE
    /\ event_number \in 1..2
    /\ is_dragging = FALSE
    /\ drag_start_x = 0
    /\ drag_start_y = 0
    /\ \E wa \in WorkAreas : work_w = wa[1] /\ work_h = wa[2]
    /\ pet_w = PetSize
    /\ pet_h = PetSize
    /\ x = clamp_x((work_w \div 2) - InitOffsetX)
    /\ y = clamp_y(work_h - InitOffsetY)
    /\ last = "init"
    /\ menu_used = FALSE
    /\ menu_pending = 0

envUnchanged == UNCHANGED <<work_w, work_h, pet_w, pet_h>>

----------------------------------------------------------------------------
(* Drag handlers *)

on_drag_start ==
    /\ running
    /\ \E ex \in PointerCoords, ey \in PointerCoords :
          /\ drag_start_x' = ex
          /\ drag_start_y' = ey
    /\ is_dragging' = TRUE
    /\ last' = "on_drag_start"
    /\ UNCHANGED <<running, pending, cycle, check, event_number, x, y, menu_used, menu_pending>>
    /\ envUnchanged

on_drag_motion ==
    /\ running
    /\ is_dragging
    /\ \E new_x \in {wx + (ex - drag_start_x) : wx \in WinXs, ex \in PointerCoords},
          new_y \in {wy + (ey - drag_start_y) : wy \in WinYs, ey \in PointerCoords} :
          /\ x' = new_x
          /\ y' = new_y
    /\ last' = "on_drag_motion"
    /\ UNCHANGED <<running, pending, cycle, check, event_number, is_dragging,
                   drag_start_x, drag_start_y, menu_used, menu_pending>>
    /\ envUnchanged

\* on_drag_release that forgets to clamp
on_drag_release_no_clamp ==
    /\ running
    /\ is_dragging' = FALSE
    /\ last' = "on_drag_release"
    /\ UNCHANGED <<running, pending, cycle, check, event_number,
                   drag_start_x, drag_start_y, x, y, menu_used, menu_pending>>
    /\ envUnchanged

on_drag_release ==
    /\ running
    /\ is_dragging' = FALSE
    /\ x' = clamp_x(x)
    /\ y' = clamp_y(y)
    /\ last' = "on_drag_release"
    /\ UNCHANGED <<running, pending, cycle, check, event_number,
                   drag_start_x, drag_start_y, menu_used, menu_pending>>
    /\ envUnchanged

----------------------------------------------------------------------------
(* Context menu *)

\* set_animation_event that leaves the frame index alone
set_animation_event_no_reset(new_event_number) ==
    /\ running
    /\ event_number' = new_event_number
    /\ last' = "set_animation_event"
    /\ menu_used' = TRUE
    /\ menu_pending' = new_event_number
    /\ UNCHANGED <<running, pending, cycle, check, is_dragging, drag_start_x,
                   drag_start_y, x, y>>
    /\ envUnchanged

set_animation_event(new_event_number) ==
    /\ running
    /\ event_number' = new_event_number
    /\ cycle' = 0
    /\ last' = "set_animation_event"
    /\ menu_used' = TRUE
    /\ menu_pending' = new_event_number
    /\ UNCHANGED <<running, pending, check, is_dragging, drag_start_x,
                   drag_start_y, x, y>>
    /\ envUnchanged

menu_command == \E n \in MenuEvents : set_animation_event(n)

----------------------------------------------------------------------------
(* Animation tick chain *)

\* event() without its last branch (event_number == 14)
event_no_wake ==
    /\ running
    /\ pending = "event"
    /\ IF event_number \in idle_num
         THEN check' = IDLE /\ pending' = "update"
       ELSE IF event_number = 5
         THEN check' = IDLE_TO_SLEEP /\ pending' = "update"
       ELSE IF event_number \in walk_left_num
         THEN check' = WALK_LEFT /\ pending' = "update"
       ELSE IF event_number \in walk_right_num
         THEN check' = WALK_RIGHT /\ pending' = "update"
       ELSE IF event_number \in sleep_num
         THEN check' = SLEEP /\ pending' = "update"
       ELSE check' = check /\ pending' = "none"
    /\ last' = "event"
    /\ menu_pending' = 0
    /\ UNCHANGED <<running, cycle, event_number, is_dragging, drag_start_x,
                   drag_start_y, x, y, menu_used>>
    /\ envUnchanged

\* event(): the if/elif chain on event_number; the chain of timers ends when
\* no branch matches
event ==
    /\ running
    /\ pending = "event"
    /\ IF event_number \in idle_num
         THEN check' = IDLE /\ pending' = "update"
       ELSE IF event_number = 5
         THEN check' = IDLE_TO_SLEEP /\ pending' = "update"
       ELSE IF event_number \in walk_left_num
         THEN check' = WALK_LEFT /\ pending' = "update"
       ELSE IF event_number \in walk_right_num
         THEN check' = WALK_RIGHT /\ pending' = "update"
       ELSE IF event_number \in sleep_num
         THEN check' = SLEEP /\ pending' = "update"
       ELSE IF event_number = 14
         THEN check' = SLEEP_TO_IDLE /\ pending' = "update"
       ELSE check' = check /\ pending' = "none"
    /\ last' = "event"
    /\ menu_pending' = 0
    /\ UNCHANGED <<running, cycle, event_number, is_dragging, drag_start_x,
                   drag_start_y, x, y, menu_used>>
    /\ envUnchanged

\* gif_work comparing against len(frames) instead of len(frames) - 1
gif_work_off_by_one(nframes, first_num, last_num) ==
    IF cycle < nframes
      THEN /\ cycle' = cycle + 1
           /\ event_number' = event_number
      ELSE /\ cycle' = 0
           /\ event_number' \in first_num .. last_num

\* gif_work(frames, first_num, last_num), frames given by its length
gif_work(nframes, first_num, last_num) ==
    IF cycle < nframes - 1
      THEN /\ cycle' = cycle + 1
           /\ event_number' = event_number
      ELSE /\ cycle' = 0
           /\ event_number' \in first_num .. last_num

\* the position change of update() without the clamp after the step
walk_raw(c) ==
    IF c = WALK_LEFT
      THEN x' = x - WalkStep /\ y' = y
    ELSE IF c = WALK_RIGHT
      THEN x' = x + WalkStep /\ y' = y
    ELSE UNCHANGED <<x, y>>

\* the position change of update() in mode c
walk(c) ==
    IF c = WALK_LEFT
      THEN x' = clamp_x(x - WalkStep) /\ y' = clamp_y(y)
    ELSE IF c = WALK_RIGHT
      THEN x' = clamp_x(x + WalkStep) /\ y' = clamp_y(y)
    ELSE UNCHANGED <<x, y>>

\* update() that animates and walks during a drag as well
update_no_freeze ==
    /\ running
    /\ pending = "update"
    /\ IF cycle >= Frames(check)
         THEN /\ pending' = "none"
              /\ last' = "update_error"
              /\ UNCHANGED <<cycle, event_number, x, y>>
         ELSE /\ gif_work(Frames(check), FirstNum(check), LastNum(check))
              /\ walk(check)
              /\ pending' = "event"
              /\ last' = "update"
    /\ UNCHANGED <<running, check, is_dragging, drag_start_x, drag_start_y,
                   menu_used, menu_pending>>
    /\ envUnchanged

\* update(): frames[self.cycle] raises IndexError when the index is out of
\* range; the callback then ends without scheduling event()
update ==
    /\ running
    /\ pending = "update"
    /\ IF cycle >= Frames(check)
         THEN /\ pending' = "none"
              /\ last' = "update_error"
              /\ UNCHANGED <<cycle, event_number, x, y>>
         ELSE /\ IF ~is_dragging
                   THEN /\ gif_work(Frames(check), FirstNum(check), LastNum(check))
                        /\ walk(check)
                   ELSE UNCHANGED <<cycle, event_number, x, y>>
              /\ pending' = "event"
              /\ last' = "update"
    /\ UNCHANGED <<running, check, is_dragging, drag_start_x, drag_start_y,
                   menu_used, menu_pending>>
    /\ envUnchanged

----------------------------------------------------------------------------

(* Chat popup *)

\* texts the user types into the entry
TypedTexts == {<<" ">>, <<"a">>, <<" ", "b", " ">>}

\* str.strip(): leading and trailing blanks removed
RECURSIVE lstrip(_)
lstrip(t) == IF t # <<>> /\ Head(t) = " " THEN lstrip(Tail(t)) ELSE t
RECURSIVE rstrip(_)
rstrip(t) ==
    IF t # <<>> /\ t[Len(t)] = " " THEN rstrip(SubSeq(t, 1, Len(t) - 1)) ELSE t
strip(t) == rstrip(lstrip(t))

\* the header row and the rows a previous run may have left in the file
HeaderRow == <<"Session_Start_Time", "Complete_Chat_History">>
OldFiles == {<<>>, <<HeaderRow, <<0, <<<<"User", <<"a">>>>>>>>>>}

TypingLine == <<"Neko is typing...">>

\* the string _get_gemini_response passes on: response.text, or
\* "Meow... (Error: <reason>)" when the call raised
ErrorReply(reason) == <<"Meow... (Error: ", reason, ")">>
ResponseText(user_message) == <<"purr", user_message>>

InitChat ==
    /\ gemini_chat \in {"ready", "none"}
    /\ chat_window = 0
    /\ chat_display = <<>>
    /\ entry_text = <<>>
    /\ entry_state = "normal"
    /\ button_state = "normal"
    /\ current_session_messages = <<>>
    /\ session_start_time = 0
    /\ clock = 0
    /\ history_file \in OldFiles
    /\ threads = <<>>
    /\ after_queue = <<>>
    /\ sends = 0
    /\ ended = <<>>

\* everything of the pet but the history variable last
petFrozen ==
    UNCHANGED <<cycle, check, event_number, is_dragging, drag_start_x,
                drag_start_y, x, y, work_w, work_h, pet_w, pet_h, menu_used, menu_pending>>

\* _create_new_chat_session writing the header without the os.path.exists test
create_new_chat_session_rewrite ==
    /\ current_session_messages' = <<>>
    /\ clock' = clock + 1
    /\ session_start_time' = clock + 1
    /\ history_file' = <<HeaderRow>>

\* _create_new_chat_session
create_new_chat_session ==
    /\ current_session_messages' = <<>>
    /\ clock' = clock + 1
    /\ session_start_time' = clock + 1
    /\ history_file' = IF history_file = <<>> THEN <<HeaderRow>> ELSE history_file

\* open_chat_window without the test for an existing window
open_chat_window_no_guard ==
    /\ running
    /\ last' = "open_chat_window"
    /\ clock < MaxSessions
    /\ create_new_chat_session
    /\ chat_window' = clock + 1
    /\ chat_display' = <<>>
    /\ entry_text' = <<>>
    /\ entry_state' = "normal"
    /\ button_state' = "normal"
    /\ UNCHANGED <<gemini_chat, threads, after_queue, sends, ended, running, pending>>
    /\ petFrozen

\* open_chat_window: lifts the window when there is one, else starts a
\* session and builds the window and its widgets
open_chat_window ==
    /\ running
    /\ last' = "open_chat_window"
    /\ IF chat_window # 0
         THEN UNCHANGED <<chat_window, chat_display, entry_text, entry_state,
                          button_state, current_session_messages,
                          session_start_time, clock, history_file>>
         ELSE /\ clock < MaxSessions
              /\ create_new_chat_session
              /\ chat_window' = clock + 1
              /\ chat_display' = <<>>
              /\ entry_text' = <<>>
              /\ entry_state' = "normal"
              /\ button_state' = "normal"
    /\ UNCHANGED <<gemini_chat, threads, after_queue, sends, ended, running, pending>>
    /\ petFrozen

\* the user edits the entry, which the toolkit allows in state "normal"
type_text ==
    /\ running
    /\ chat_window # 0
    /\ entry_state = "normal"
    /\ \E t \in TypedTexts : entry_text' = t
    /\ last' = "type_text"
    /\ UNCHANGED <<gemini_chat, chat_window, chat_display, entry_state,
                   button_state, current_session_messages, session_start_time,
                   clock, history_file, threads, after_queue, sends, ended,
                   running, pending>>
    /\ petFrozen

\* _save_message_to_history(sender, message), as the new message list
save_message_to_history(messages, sender, message) ==
    Append(messages, <<sender, message>>)

\* send_chat_message, run by <Return> in the entry or by the send button
send_chat_message ==
    /\ running
    /\ chat_window # 0
    /\ last' = "send_chat_message"
    /\ LET user_message == strip(entry_text) IN
       IF user_message = <<>>
         THEN UNCHANGED <<chat_display, entry_text, entry_state, button_state,
                          current_session_messages, threads, sends>>
         ELSE /\ sends < MaxSends
              /\ chat_display' = chat_display \o <<<<"You", user_message>>, TypingLine>>
              /\ entry_text' = <<>>
              /\ current_session_messages' =
                     save_message_to_history(current_session_messages, "User", user_message)
              /\ entry_state' = "disabled"
              /\ button_state' = "disabled"
              /\ threads' = Append(threads,
                     [user_message |-> user_message, sent_in |-> session_start_time])
              /\ sends' = sends + 1
    /\ UNCHANGED <<gemini_chat, chat_window, session_start_time, clock,
                   history_file, after_queue, ended, running, pending>>
    /\ petFrozen

RemoveAt(q, i) == SubSeq(q, 1, i - 1) \o SubSeq(q, i + 1, Len(q))

\* the outcomes of the try block of _get_gemini_response
Outcomes(user_message) ==
    IF gemini_chat = "none"
      THEN {ErrorReply("Gemini is not initialized.")}
      ELSE {ResponseText(user_message), ErrorReply("send_message raised")}

\* _get_gemini_response calling _update_chat_with_response itself instead
\* of queueing it with master.after
get_gemini_response_direct ==
    /\ running
    /\ chat_window # 0
    /\ \E i \in 1..Len(threads) :
          /\ \E neko_response \in Outcomes(threads[i].user_message) :
                /\ chat_display' = Append(chat_display, <<"Neko", neko_response>>)
                /\ current_session_messages' =
                       Append(current_session_messages, <<"Neko", neko_response>>)
          /\ threads' = RemoveAt(threads, i)
    /\ entry_state' = "normal"
    /\ button_state' = "normal"
    /\ last' = "get_gemini_response"
    /\ UNCHANGED <<gemini_chat, chat_window, entry_text, session_start_time,
                   clock, history_file, after_queue, sends, ended, running, pending>>
    /\ petFrozen

\* _get_gemini_response: one background thread finishes and queues the
\* callback for the UI thread
get_gemini_response ==
    /\ running
    /\ \E i \in 1..Len(threads) :
          /\ \E neko_response \in Outcomes(threads[i].user_message) :
                after_queue' = Append(after_queue,
                    [neko_response |-> neko_response, sent_in |-> threads[i].sent_in])
          /\ threads' = RemoveAt(threads, i)
    /\ last' = "get_gemini_response"
    /\ UNCHANGED <<gemini_chat, chat_window, chat_display, entry_text, entry_state,
                   button_state, current_session_messages, session_start_time,
                   clock, history_file, sends, ended, running, pending>>
    /\ petFrozen

\* content.replace("Neko is typing...\n\n", "")
without_typing(content) == SelectSeq(content, LAMBDA line : line # TypingLine)

\* _update_chat_with_response, run by the UI thread for the oldest queued
\* callback; with the widgets destroyed the first configure() raises and the
\* callback ends there
update_chat_with_response ==
    /\ running
    /\ after_queue # <<>>
    /\ after_queue' = Tail(after_queue)
    /\ LET neko_response == Head(after_queue).neko_response IN
       IF chat_window = 0
         THEN /\ last' = "update_chat_with_response_error"
              /\ UNCHANGED <<chat_display, current_session_messages,
                             entry_state, button_state>>
         ELSE /\ last' = "update_chat_with_response"
              /\ chat_display' =
                     Append(without_typing(chat_display), <<"Neko", neko_response>>)
              /\ current_session_messages' =
                     save_message_to_history(current_session_messages, "Neko", neko_response)
              /\ entry_state' = "normal"
              /\ button_state' = "normal"
    /\ UNCHANGED <<gemini_chat, chat_window, entry_text, session_start_time,
                   clock, history_file, threads, sends, ended, running, pending>>
    /\ petFrozen

\* _save_complete_session: the rows of the file and the session fields after it
save_complete_session ==
    IF current_session_messages = <<>> \/ session_start_time = 0
      THEN UNCHANGED <<history_file, current_session_messages, session_start_time>>
      ELSE /\ history_file' = Append(history_file,
                  <<session_start_time, current_session_messages>>)
           /\ current_session_messages' = <<>>
           /\ session_start_time' = 0

\* _on_chat_window_close, the WM_DELETE_WINDOW handler of the chat window
on_chat_window_close ==
    /\ running
    /\ chat_window # 0
    /\ save_complete_session
    /\ chat_window' = 0
    /\ ended' = Append(ended, <<chat_window, current_session_messages>>)
    /\ last' = "on_chat_window_close"
    /\ UNCHANGED <<gemini_chat, chat_display, entry_text, entry_state, button_state,
                   clock, threads, after_queue, sends, running, pending>>
    /\ petFrozen

\* quit_app: master.destroy() ends the main loop and destroys the chat
\* window with it
quit_app ==
    /\ running
    /\ running' = FALSE
    /\ pending' = "none"
    /\ chat_window' = 0
    /\ ended' = IF chat_window # 0
                  THEN Append(ended, <<chat_window, current_session_messages>>)
                  ELSE ended
    /\ last' = "quit_app"
    /\ UNCHANGED <<gemini_chat, chat_display, entry_text, entry_state, button_state,
                   current_session_messages, session_start_time, clock,
                   history_file, threads, after_queue, sends>>
    /\ petFrozen

----------------------------------------------------------------------------
(* Specifications.  The animation and drag handlers and the chat handlers  *)
(* work on disjoint fields, so each group is explored on its own: Spec     *)
(* runs the pet, SpecChat runs the chat popup and quit_app.  The fields a  *)
(* group never reads start from one representative value.                  *)

\* the chat fields as the pet handlers find them: no chat opened
Init ==
    /\ InitPet
    /\ InitChat
    /\ gemini_chat = "none"
    /\ history_file = <<>>

Next ==
    \/ update /\ UNCHANGED chatVars
    \/ event /\ UNCHANGED chatVars
    \/ menu_command /\ UNCHANGED chatVars
    \/ on_drag_start /\ UNCHANGED chatVars
    \/ on_drag_motion /\ UNCHANGED chatVars
    \/ on_drag_release /\ UNCHANGED chatVars

Spec == Init /\ [][Next]_vars

NextChat ==
    \/ open_chat_window
    \/ type_text
    \/ send_chat_message
    \/ get_gemini_response
    \/ update_chat_with_response
    \/ on_chat_window_close
    \/ quit_app

\* one initial pet state for the chat handlers, which never read it
InitForChat ==
    /\ InitPet
    /\ InitChat
    /\ event_number = 1
    /\ work_w = PetSize + MaxSlackX

SpecChat == InitForChat /\ [][NextChat]_vars

\* the pet with the Tk main loop running every due after() callback
InitLive ==
    /\ InitPet
    /\ InitChat
    /\ gemini_chat = "none"
    /\ history_file = <<>>
    /\ event_number = 1
    /\ work_w = PetSize - 2

SpecLive ==
    /\ InitLive
    /\ [][Next]_vars
    /\ WF_vars(update /\ UNCHANGED chatVars)
    /\ WF_vars(event /\ UNCHANGED chatVars)

----------------------------------------------------------------------------
(* Properties of the animation cycler and of dragging *)

\* the range the claims give for one coordinate
HiX == IF work_w - pet_w > 0 THEN work_w - pet_w ELSE 0
HiY == IF work_h - pet_h > 0 THEN work_h - pet_h ELSE 0
InWorkArea == 0 <= x /\ x <= HiX /\ 0 <= y /\ y <= HiY
Clamped(v, hi) == IF v < 0 THEN 0 ELSE IF v > hi THEN hi ELSE v

\* frame counts as the claims list them
FrameCount == [m \in Modes |->
    IF m = IDLE THEN 5 ELSE IF m = SLEEP THEN 3 ELSE 8]

\* C1: in every reachable state, under any interleaving of ticks, menu
\* commands and drag events, 0 <= cycle < number of frames of the animation
\* selected by check, so update() never indexes a frame list out of range.
C1_FrameIndexInBounds ==
    /\ check \in Modes
    /\ 0 <= cycle
    /\ cycle < FrameCount[check]
    /\ last # "update_error"

\* the last frame of the shortest animation, shown after a menu command
C1_Witness ==
    /\ menu_used
    /\ last = "update"
    /\ check = SLEEP
    /\ cycle = 2

\* C2 as stated: the position is inside the work area in every reachable
\* state, also while a drag is in progress.
C2_PositionAlwaysInWorkArea == InWorkArea

\* C2 amended: whenever no drag is in progress the position is inside the
\* work area (during a drag on_drag_motion stores the unclamped position).
C2_PositionInWorkAreaWhenNotDragging == ~is_dragging => InWorkArea

\* a finished drag has left the pet at the far edge of a roomy work area
C2_Witness ==
    /\ last = "on_drag_release"
    /\ ~is_dragging
    /\ work_w > pet_w
    /\ x = HiX
    /\ y = HiY

\* C3: on_drag_release ends the drag and leaves (x, y) at the last dragged-to
\* position clamped component-wise into the work area; a position already
\* inside is left unchanged. During a drag only on_drag_motion moves the pet,
\* so the position before the release is the last dragged-to position.
C3_DragReleaseClamps ==
    [][ /\ (last' = "on_drag_release") =>
            /\ ~is_dragging'
            /\ x' = Clamped(x, HiX)
            /\ y' = Clamped(y, HiY)
            /\ (InWorkArea => (x' = x /\ y' = y))
        /\ (is_dragging /\ last' \notin {"on_drag_motion", "on_drag_release"}) =>
            (x' = x /\ y' = y)
      ]_vars

\* a release has put the pet on the right edge, at the top
C3_Witness ==
    /\ last = "on_drag_release"
    /\ ~is_dragging
    /\ work_w > pet_w
    /\ x = HiX
    /\ y = 0

\* mode selected by an event number, as the claims describe the cycler
ModeOf(n) ==
    IF n \in 1..4 THEN IDLE
    ELSE IF n = 5 THEN IDLE_TO_SLEEP
    ELSE IF n \in 6..7 THEN WALK_LEFT
    ELSE IF n \in 8..9 THEN WALK_RIGHT
    ELSE IF n = 14 THEN SLEEP_TO_IDLE
    ELSE SLEEP

AfterAwake == {IDLE, IDLE_TO_SLEEP, WALK_LEFT, WALK_RIGHT}
ModeSuccessions ==
    ({IDLE, WALK_LEFT, WALK_RIGHT} \X AfterAwake)
    \cup {<<IDLE_TO_SLEEP, SLEEP>>, <<SLEEP, SLEEP>>, <<SLEEP, SLEEP_TO_IDLE>>,
          <<SLEEP_TO_IDLE, IDLE>>}

\* C4: check is always one of the six modes and the event number is always
\* in 1..15; while no menu command has been issued, every change of check,
\* and every choice of the next mode made when an animation completes,
\* follows the six-mode succession relation.
C4_ModeSuccession ==
    /\ [](check \in Modes /\ event_number \in 1..15)
    /\ [][ ~menu_used' =>
            /\ (check' # check) => (<<check, check'>> \in ModeSuccessions)
            /\ (event_number' # event_number \/ (last' = "update" /\ cycle' = 0
                                                 /\ cycle # 0)) =>
                   (<<check, ModeOf(event_number')>> \in ModeSuccessions)
         ]_vars

\* without any menu command the pet has gone idle -> idle-to-sleep -> sleep
\* -> sleep-to-idle
C4_Witness ==
    /\ ~menu_used
    /\ last = "event"
    /\ check = SLEEP_TO_IDLE

\* the range of event numbers drawn at the end of each animation, as claimed
DrawRange(m) ==
    IF m \in {IDLE, WALK_LEFT, WALK_RIGHT} THEN 1..9
    ELSE IF m = IDLE_TO_SLEEP THEN {10}
    ELSE IF m = SLEEP THEN 10..15
    ELSE {1}

\* C5: on every update tick taken while not dragging, either the frame index
\* was below the last frame and grows by one with the event number unchanged,
\* or it was at the last frame, resets to 0 and a new event number is drawn
\* from the mode's range.
C5_LinearFrameAdvance ==
    [][ (pending = "update" /\ pending' # "update" /\ running' /\ ~is_dragging) =>
            \/ /\ cycle < FrameCount[check] - 1
               /\ cycle' = cycle + 1
               /\ event_number' = event_number
            \/ /\ cycle = FrameCount[check] - 1
               /\ cycle' = 0
               /\ event_number' \in DrawRange(check)
      ]_vars

\* the sleep animation has just completed and drawn the wake-up number
C5_Witness ==
    /\ last = "update"
    /\ ~is_dragging
    /\ check = SLEEP
    /\ cycle = 0
    /\ event_number = 14

\* C6: whenever check changes to a different mode, the frame index is 0 at
\* that moment.
C6_ModeChangeStartsAtFrameZero ==
    [][ (check' # check) => (cycle' = 0) ]_vars

----------------------------------------------------------------------------
(* Properties of the chat popup *)

\* requests sent whose reply the UI thread has not processed yet
Outstanding == Len(threads) + Len(after_queue)

\* the step is the UI thread running the oldest queued reply callback
ReplyProcessed == Len(after_queue') < Len(after_queue)

IsErrorReply(r) == Len(r) = 3 /\ r[1] = "Meow... (Error: "

\* the reply r is the last line shown, no typing indicator is left and the
\* input is usable again
ReplyShown(r) ==
    /\ chat_window' # 0
    /\ chat_display' # <<>>
    /\ chat_display'[Len(chat_display')] = <<"Neko", r>>
    /\ \A i \in 1..Len(chat_display') : chat_display'[i] # TypingLine
    /\ entry_state' = "normal"
    /\ button_state' = "normal"

\* C7: every chat session that ended (window closed or application quit)
\* with at least one recorded message is in the history file as exactly one
\* row (below the header row) holding its start time and all its messages in
\* order.
C7_EverySessionLogged ==
    \A i \in 1..Len(ended) :
        ended[i][2] # <<>> =>
            Cardinality({j \in 2..Len(history_file) : history_file[j] = ended[i]}) = 1

\* C8: while a request is outstanding the entry and the send button are
\* disabled, and at most one request is outstanding at any time.
C8_AtMostOneOutstanding ==
    /\ (Outstanding > 0 /\ chat_window # 0) =>
           (entry_state = "disabled" /\ button_state = "disabled")
    /\ Outstanding <= 1

\* C9: the reply to every accepted message is shown: when the UI thread
\* processes a reply callback, the reply appears in the chat display, the
\* typing indicator is gone and the entry and button are enabled again.
C9_EveryReplyDisplayed ==
    [][ ReplyProcessed => ReplyShown(Head(after_queue).neko_response) ]_vars

\* C10: a failed call (chatbot not initialized, or send_message raising) is
\* turned into the string "Meow... (Error: <reason>)", which is displayed and
\* recorded as Neko's reply, and the input is enabled again.
C10_ErrorBecomesReply ==
    [][ /\ (Len(threads') < Len(threads) /\ gemini_chat = "none") =>
            /\ Len(after_queue') = Len(after_queue) + 1
            /\ IsErrorReply(after_queue'[Len(after_queue')].neko_response)
        /\ (ReplyProcessed /\ IsErrorReply(Head(after_queue).neko_response)) =>
            /\ ReplyShown(Head(after_queue).neko_response)
            /\ current_session_messages' # <<>>
            /\ current_session_messages'[Len(current_session_messages')] =
                   <<"Neko", Head(after_queue).neko_response>>
      ]_vars

\* C11: rows already in the history file are never removed, reordered or
\* modified; the header row is written only when the file does not exist yet
\* (and is then the whole file); a session save appends exactly one row, the
\* session's, at the end; nothing else writes the file.
C11_AppendOnlyLog ==
    [][ /\ Len(history_file') >= Len(history_file)
        /\ SubSeq(history_file', 1, Len(history_file)) = history_file
        /\ (history_file' # history_file) =>
              \/ /\ history_file = <<>>
                 /\ history_file' = <<HeaderRow>>
                 /\ last' = "open_chat_window"
              \/ /\ history_file # <<>>
                 /\ last' = "on_chat_window_close"
                 /\ current_session_messages # <<>>
                 /\ history_file' = Append(history_file,
                        <<session_start_time, current_session_messages>>)
        /\ (last' = "on_chat_window_close" /\ current_session_messages # <<>>) =>
              Len(history_file') = Len(history_file) + 1
      ]_vars

\* two sessions have been saved below the rows an earlier run left
C11_Witness ==
    /\ last = "on_chat_window_close"
    /\ Len(history_file) = 4
    /\ history_file[2][1] = 0
    /\ history_file[4][1] = 2

\* the chat state the UI shows and records
ChatState == <<chat_display, entry_text, entry_state, button_state,
               current_session_messages>>

\* the handlers that run on the UI thread
UIHandlers == {"open_chat_window", "type_text", "send_chat_message",
               "update_chat_with_response", "on_chat_window_close"}

\* C12: send_chat_message starts one background call; a background call that
\* finishes queues exactly one _update_chat_with_response callback and leaves
\* the chat display, the input widgets and the session message list alone;
\* callbacks are queued by nothing else, and that chat state changes only in
\* handlers run by the UI thread.
C12_ResultMarshaledToUI ==
    [][ /\ (Len(threads') < Len(threads)) =>
              /\ Len(threads') = Len(threads) - 1
              /\ Len(after_queue') = Len(after_queue) + 1
              /\ ChatState' = ChatState
        /\ (Len(after_queue') > Len(after_queue)) => (Len(threads') < Len(threads))
        /\ (Len(threads') > Len(threads)) =>
              /\ last' = "send_chat_message"
              /\ Len(threads') = Len(threads) + 1
        /\ (ChatState' # ChatState) => (last' \in UIHandlers)
      ]_vars

\* a background call has finished while its chat window is open and its
\* callback waits for the UI thread, the typing indicator still shown
C12_Witness ==
    /\ last = "get_gemini_response"
    /\ chat_window # 0
    /\ Len(after_queue) = 1
    /\ after_queue[1].sent_in = session_start_time
    /\ entry_state = "disabled"
    /\ chat_display # <<>>
    /\ chat_display[Len(chat_display)] = TypingLine

\* the step is update() run by its timer
UpdateTick == pending = "update" /\ pending' = "event"

\* C13: on an update tick taken while not dragging, from a position inside
\* the work area, walk-left makes x max(0, x - 3), walk-right makes x
\* min(max(0, work_w - pet_w), x + 3), y is unchanged, and the other four
\* modes leave x and y unchanged: the pet never wraps to the opposite edge.
C13_WalkSaturates ==
    [][ (UpdateTick /\ ~is_dragging /\ InWorkArea) =>
            /\ y' = y
            /\ (check = WALK_LEFT) =>
                   x' = (IF x - 3 > 0 THEN x - 3 ELSE 0)
            /\ (check = WALK_RIGHT) =>
                   x' = (IF x + 3 < HiX THEN x + 3 ELSE HiX)
            /\ (check \notin {WALK_LEFT, WALK_RIGHT}) => x' = x
      ]_vars

\* the pet has walked right up to the edge of a roomy work area and stays
\* there on the frames that follow
C13_Witness ==
    /\ last = "update"
    /\ ~is_dragging
    /\ check = WALK_RIGHT
    /\ cycle = 7
    /\ work_w > pet_w
    /\ x = HiX

\* C14: a reply is displayed and recorded only in the session its message
\* was sent in: a reply callback that runs when that session is no longer the
\* current one changes neither the display, nor the message list, nor the
\* state of the input widgets.
C14_RepliesStayInSession ==
    [][ (ReplyProcessed /\ Head(after_queue).sent_in # session_start_time) =>
            /\ chat_display' = chat_display
            /\ current_session_messages' = current_session_messages
            /\ entry_state' = entry_state
            /\ button_state' = button_state
      ]_vars


\* the mode each menu entry asks for
CommandedMode(n) ==
    CASE n = 5 -> IDLE_TO_SLEEP
      [] n = 6 -> WALK_LEFT
      [] n = 8 -> WALK_RIGHT

EventStep == pending = "event" /\ pending' = "update"

\* C15: a menu command takes effect. While the event number set by
\* set_animation_event(n), n in {5, 6, 8}, has not been consumed by event(),
\* it is still the event number (no random draw replaces it), the tick chain
\* is alive and at most one update tick (which finds cycle = 0 and keeps the
\* event number) comes before the event step, and that event step puts the
\* pet in the commanded mode.
C15_MenuCommandTakesEffect ==
    /\ [](menu_pending # 0 =>
            /\ event_number = menu_pending
            /\ pending \in {"update", "event"}
            /\ (pending = "update" => cycle = 0))
    /\ [][ (menu_pending # 0 /\ UpdateTick) =>
              /\ event_number' = event_number
              /\ menu_pending' = menu_pending ]_vars
    /\ [][ (menu_pending # 0 /\ EventStep) =>
              /\ check' = CommandedMode(menu_pending)
              /\ menu_pending' = 0 ]_vars

\* a walk-left command given to a sleeping pet has survived the one update
\* tick and is about to be consumed by event()
C15_Witness ==
    /\ menu_pending = 6
    /\ check = SLEEP
    /\ last = "update"
    /\ pending = "event"
    /\ cycle = 1


\* the event numbers that match a branch of event()
HandledEvents ==
    idle_num \cup {5} \cup walk_left_num \cup walk_right_num \cup sleep_num
    \cup {14}

\* C16: the animation tick chain never stops. Exactly one of update and
\* event is pending at every moment; the event number then always matches a
\* branch of event(); an update step leaves event pending and an event step
\* leaves update pending; and update runs again and again, also during a
\* drag and after a menu command.
C16_TickChainNeverStops ==
    /\ [](pending \in {"update", "event"} /\ event_number \in HandledEvents)
    /\ [][ (pending = "update" /\ pending' # pending) => pending' = "event" ]_vars
    /\ [][ (pending = "event" /\ pending' # pending) => pending' = "update" ]_vars
    /\ []<><<UpdateTick>>_vars

\* the pet is asleep with its wake-up number drawn and event() pending, in
\* the middle of a drag and after a menu command
C16_Witness ==
    /\ event_number = 14
    /\ pending = "event"
    /\ is_dragging
    /\ menu_used


\* C17: dragging freezes the animation. An update tick taken while
\* is_dragging is true leaves the frame index, the event number and the
\* position unchanged, and a step that starts and ends inside a drag changes
\* the position only if it is on_drag_motion.
C17_DragFreezesAnimation ==
    /\ [][ (UpdateTick /\ is_dragging) =>
              UNCHANGED <<cycle, event_number, x, y>> ]_vars
    /\ [][ (is_dragging /\ is_dragging' /\ (x' # x \/ y' # y)) =>
              last' = "on_drag_motion" ]_vars

\* an update tick has just run on a pet that is in walk-right mode, is being
\* dragged and is not at the right edge, where a step would have moved it
C17_Witness ==
    /\ last = "update"
    /\ is_dragging
    /\ check = WALK_RIGHT
    /\ x + WalkStep <= HiX
    /\ x >= 0


\* C18: sleep is entered and left only through its transition animations.
\* In every step, menu commands included, a pet that enters the sleep mode
\* was in idle-to-sleep, and a pet that enters the sleep-to-idle mode was in
\* sleep; without a menu command to consume, a pet that leaves the sleep mode
\* enters sleep-to-idle.
C18_SleepOnlyThroughTransitions ==
    [][ /\ (check' = SLEEP /\ check # SLEEP) => check = IDLE_TO_SLEEP
        /\ (check' = SLEEP_TO_IDLE /\ check # SLEEP_TO_IDLE) => check = SLEEP
        /\ (check = SLEEP /\ check' # SLEEP /\ menu_pending = 0) =>
               check' = SLEEP_TO_IDLE
      ]_vars

\* after a menu command the pet has gone through idle-to-sleep and sleep and
\* has just entered sleep-to-idle
C18_Witness ==
    /\ menu_used
    /\ last = "event"
    /\ check = SLEEP_TO_IDLE
    /\ event_number = 14
    /\ cycle = 0


\* C19: opening the chat is idempotent while it is open. The window that
\* exists is the one built for the current session, and open_chat_window
\* called while a chat window exists starts no session and builds no window:
\* the message list, the session start time, the window, its display and the
\* log file stay as they are.
C19_OpenIsIdempotent ==
    /\ [](chat_window # 0 => chat_window = session_start_time)
    /\ [][ (last' = "open_chat_window" /\ chat_window # 0) =>
              UNCHANGED <<chat_window, current_session_messages,
                          session_start_time, clock, chat_display,
                          history_file>> ]_vars

\* open_chat_window has just run on an open window whose session already
\* holds messages
C19_Witness ==
    /\ last = "open_chat_window"
    /\ chat_window # 0
    /\ current_session_messages # <<>>

====
